---- MODULE Spec2Model ----
(***************************************************************************)
(* Model of the multi-tenant image service: the tenant ledger              *)
(* (models/Application.js), the image catalog (models/Image.js), the       *)
(* upload middleware (middleware/upload.js), the bearer middleware         *)
(* (middleware/auth.js) and the image controller                           *)
(* (controllers/imageController.js).                                       *)
(*                                                                         *)
(* Byte sizes are counted in abstract units; dates are counted in calendar *)
(* months (the only granularity the ledger compares).  Every action is one *)
(* HTTP request handled from the first middleware to the response, so the  *)
(* behaviours of Spec are the runs without overlapping requests.           *)
(***************************************************************************)
EXTENDS Integers, Sequences, FiniteSets, TLC

\* ---------------------------------------------------------------- bounds
MaxImages == 2      \* asset records ever created
MaxVersions == 1    \* replacements of one asset
MaxMonth  == 1      \* calendar months the clock advances through
MaxAccess == 1      \* recorded reads per asset
MaxBulk   == 2      \* files in one bulk request
MaxAssets == 1      \* asset records before the last upload in SpecAccess, SpecPublic, SpecVariants

\* ------------------------------------------------------ program constants
\* middleware/upload.js: multer rejects any file above MAX_FILE_SIZE
\* (5242880 bytes = 2 units of the model).
MAX_FILE_SIZE == 2

Tenants == {"t1", "t2"}

NoValue == "undefined"

\* an unset Date, and the imageId of a JWT payload that has none
NoDate == -1
NoImageId == 0

\* IMAGE_SIZES of controllers/imageController.js
IMAGE_SIZES == {"thumbnail", "small", "medium", "large", "original"}

\* plan limits tenants are registered with (units / images / units)
RoomyLimits == [maxFileSize |-> 2, maxImagesPerMonth |-> 3, maxStorageSize |-> 6]
TightLimits == [maxFileSize |-> 1, maxImagesPerMonth |-> 1, maxStorageSize |-> 2]

VARIABLES
  storageType,   \* process.env.STORAGE_TYPE: "local" or "s3"
  now,           \* the current calendar month
  limits,        \* Application.limits, per tenant
  usage,         \* Application.usage, per tenant (persisted)
  images,        \* the Image collection; imageId = index
  blobs,         \* the handles the blob store resolves
  purges,        \* pending setTimeout callbacks of deleteImage
  accepted,      \* per tenant: number and byte sum of accepted uploads
  resp,          \* the response of the last request
  reqs           \* the upload requests in flight, per connection

vars == <<storageType, now, limits, usage, images, blobs, purges, accepted,
          resp, reqs>>

\* ------------------------------------------------------- tenant ledger
\* a reset check that never finds a new month
resetMonthlyUsage_Never(u, today) == u

\* applicationSchema.methods.resetMonthlyUsage
resetMonthlyUsage(u, today) ==
  IF today # u.lastResetDate
  THEN [u EXCEPT !.currentMonthUploads = 0, !.lastResetDate = today]
  ELSE u

\* canUpload that still admits when the monthly count equals the limit
canUpload_MonthlyInclusive(u0, lim, fileSize, today) ==
  LET u == resetMonthlyUsage(u0, today)
      withinMonthlyLimit == u.currentMonthUploads <= lim.maxImagesPerMonth
      withinStorageLimit == (u.totalStorageUsed + fileSize) <= lim.maxStorageSize
      withinFileSizeLimit == fileSize <= lim.maxFileSize
  IN [ usage   |-> u,
       allowed |-> withinMonthlyLimit /\ withinStorageLimit /\ withinFileSizeLimit,
       reasons |-> [ monthlyLimit  |-> withinMonthlyLimit,
                     storageLimit  |-> withinStorageLimit,
                     fileSizeLimit |-> withinFileSizeLimit ],
       limits  |-> [ monthlyRemaining |-> lim.maxImagesPerMonth - u.currentMonthUploads,
                     storageRemaining |-> lim.maxStorageSize - u.totalStorageUsed,
                     maxFileSize      |-> lim.maxFileSize ] ]

\* canUpload with a decision that forgets the per-file size reason
canUpload_NoFileSize(u0, lim, fileSize, today) ==
  LET u == resetMonthlyUsage(u0, today)
      withinMonthlyLimit == u.currentMonthUploads < lim.maxImagesPerMonth
      withinStorageLimit == (u.totalStorageUsed + fileSize) <= lim.maxStorageSize
      withinFileSizeLimit == fileSize <= lim.maxFileSize
  IN [ usage   |-> u,
       allowed |-> withinMonthlyLimit /\ withinStorageLimit,
       reasons |-> [ monthlyLimit  |-> withinMonthlyLimit,
                     storageLimit  |-> withinStorageLimit,
                     fileSizeLimit |-> withinFileSizeLimit ],
       limits  |-> [ monthlyRemaining |-> lim.maxImagesPerMonth - u.currentMonthUploads,
                     storageRemaining |-> lim.maxStorageSize - u.totalStorageUsed,
                     maxFileSize      |-> lim.maxFileSize ] ]

\* applicationSchema.methods.canUpload: the usage after the reset check and
\* the returned decision
canUpload(u0, lim, fileSize, today) ==
  LET u == resetMonthlyUsage(u0, today)
      withinMonthlyLimit == u.currentMonthUploads < lim.maxImagesPerMonth
      withinStorageLimit == (u.totalStorageUsed + fileSize) <= lim.maxStorageSize
      withinFileSizeLimit == fileSize <= lim.maxFileSize
  IN [ usage   |-> u,
       allowed |-> withinMonthlyLimit /\ withinStorageLimit /\ withinFileSizeLimit,
       reasons |-> [ monthlyLimit  |-> withinMonthlyLimit,
                     storageLimit  |-> withinStorageLimit,
                     fileSizeLimit |-> withinFileSizeLimit ],
       limits  |-> [ monthlyRemaining |-> lim.maxImagesPerMonth - u.currentMonthUploads,
                     storageRemaining |-> lim.maxStorageSize - u.totalStorageUsed,
                     maxFileSize      |-> lim.maxFileSize ] ]

\* recordUpload that counts the upload but not its bytes
recordUpload_NoBytes(u, fileSize) ==
  [u EXCEPT !.totalImages = @ + 1,
            !.currentMonthUploads = @ + 1]

\* applicationSchema.methods.recordUpload (the in-memory increments; the
\* caller persists the result)
recordUpload(u, fileSize) ==
  [u EXCEPT !.totalImages = @ + 1,
            !.totalStorageUsed = @ + fileSize,
            !.currentMonthUploads = @ + 1]

\* --------------------------------------------------------------- catalog
\* the hook without the last category of its list
preSave_NoAccessories(img) ==
  IF \/ img.entityType = "product"
     \/ img.category = "product"
     \/ img.productId # NoValue
     \/ img.category = "electronics"
     \/ img.category = "clothing"
  THEN [img EXCEPT !.isPublic = TRUE]
  ELSE img

\* a hook that recomputes the flag on every save
preSave_Recomputes(img) ==
  [img EXCEPT !.isPublic =
     \/ img.entityType = "product"
     \/ img.productId # NoValue
     \/ img.category \in {"product", "electronics", "clothing", "accessories"}]

\* imageSchema.pre('save')
preSave(img) ==
  IF \/ img.entityType = "product"
     \/ img.category = "product"
     \/ img.productId # NoValue
     \/ img.category = "electronics"
     \/ img.category = "clothing"
     \/ img.category = "accessories"
  THEN [img EXCEPT !.isPublic = TRUE]
  ELSE img

\* ---------------------------------------------------------- request inputs
\* An uploaded file: its byte size and what its content is.
\*   "image"    decodes, and every variant can be generated
\*   "fragile"  passes validateFileType, but variant generation throws
\*              (the responses remember such a file as fragile)
\*   "corrupt"  fails validateFileType (content is not jpeg/png/webp)
\*   "filtered" is refused by multer's fileFilter (extension, MIME, name)
\* A request body carries the classification fields category, entityType
\* and productId, each NoValue when absent.

\* The token query parameter: absent, empty, or a JWT.  A JWT is described by
\* whether its signature verifies under JWT_SECRET, whether it is past its
\* exp, and the imageId of its payload (NoImageId for a JWT that has none, as
\* the bearer tokens signed with the same secret).
NoToken == [jwt |-> FALSE, text |-> NoValue]
EmptyToken == [jwt |-> FALSE, text |-> ""]
Jwt(sig, expired, imageId) ==
  [jwt |-> TRUE, sig |-> sig, expired |-> expired, imageId |-> imageId]

\* jwt.verify that does not look at exp
jwtVerify_IgnoreExpiry(tok) == tok.sig = "good"

\* jwt.verify(token, JWT_SECRET) returns the payload; FALSE when it throws
jwtVerify(tok) == tok.sig = "good" /\ ~tok.expired

\* Blob handles.  The upload middleware names every stored file with a fresh
\* uuid; the model names the file that becomes version v of asset id
\* OrigBlob(id, v) and the stored files that never get a catalog record
\* StrayBlob (they are not told apart).  The variant files of an asset live under variants/<imageId>/
\* whatever the version.
OrigBlob(id, v) == <<"file", id, v>>
VariantBlob(id) == <<"variants", id>>
StrayBlob == <<"stray">>

\* the blob store after one more file was stored that no record refers to
addStray(store) == store \cup {StrayBlob}

ImageIds == 1..Len(images)

\* the lookup without the isDeleted filter
findLive_NoFilter(id) == id \in ImageIds

\* Image.findOne({imageId, isDeleted: false})
findLive(id) == id \in ImageIds /\ ~images[id].isDeleted

\* the lookup without the application filter
findOwned_AnyTenant(id, t) == findLive(id)

\* Image.findOne({imageId, application, isDeleted: false})
findOwned(id, t) == findLive(id) /\ images[id].application = t

\* ------------------------------------------------------ upload middleware
\* the status uploadMiddleware / bulkUploadMiddleware answers for the errors
\* of multer (fileFilter, LIMIT_FILE_SIZE), 0 when multer hands the file on
multerStatus(f) ==
  IF f.kind = "filtered" THEN 400
  ELSE IF f.size > MAX_FILE_SIZE THEN 400
  ELSE 0

\* validateFileType: TRUE when the content is a decodable jpeg/png/webp,
\* FALSE when it throws
validateFileType(f) == f.kind \in {"image", "fragile"}

\* req.file.mimetype, the content type the client declared for the part; the
\* inputs that do not vary it are jpeg files
mimetypeOf(f) == IF "mimetype" \in DOMAIN f THEN f.mimetype ELSE "image/jpeg"

\* whether the middleware leaves the file in the blob store: the disk
\* storage writes it before validation, the S3 upload follows validation
storesFile(f) ==
  multerStatus(f) = 0 /\ (storageType = "local" \/ validateFileType(f))

\* generateImageVariants / generateS3ImageVariants: the names of the variant
\* map; the call throws exactly when sharp cannot process the content, and
\* the caller then keeps its empty map
generateImageVariants(f) ==
  IF f.kind = "image" THEN IMAGE_SIZES ELSE {}

\* the variant failure rethrown to the caller's own error handling
variantErrorEscapes_Rethrown(f) == generateImageVariants(f) = {}

\* `try { variants = await generate...(...) } catch (variantError) {
\* logger.warn(...) }`: whether the failure leaves the try statement.  The
\* catch block only logs, so it never does.
variantErrorEscapes(f) == FALSE

\* JavaScript truthiness of a multipart body field: an absent field and the
\* empty string are falsy
truthy(v) == v \notin {NoValue, ""}

\* req.body.entityId; the bodies that do not name an entity have none
entityIdOf(b) == IF "entityId" \in DOMAIN b THEN b.entityId ELSE NoValue

\* the document `new Image(imageData)` of uploadImage / bulkUploadImages,
\* with the schema defaults
newImage(t, f, b, path) ==
  [ application    |-> t,
    size           |-> f.size,
    mimetype       |-> mimetypeOf(f),
    path           |-> path,
    variants       |-> generateImageVariants(f),
    category       |-> IF truthy(b.category) THEN b.category ELSE "uncategorized",
    entityId       |-> IF truthy(entityIdOf(b)) THEN entityIdOf(b) ELSE NoValue,
    entityType     |-> IF truthy(b.entityType) THEN b.entityType ELSE NoValue,
    productId      |-> IF truthy(b.productId) THEN b.productId ELSE NoValue,
    isPublic       |-> FALSE,
    isDeleted      |-> FALSE,
    deletedAt      |-> NoDate,
    versions       |-> << >>,
    accessCount    |-> 0,
    lastAccessedAt |-> NoDate ]

\* the itemised details of a 413 of uploadImage
uploadDetails(reasons) ==
  (IF ~reasons.monthlyLimit THEN {"monthly"} ELSE {})
  \cup (IF ~reasons.storageLimit THEN {"storage"} ELSE {})
  \cup (IF ~reasons.fileSizeLimit THEN {"fileSize"} ELSE {})

\* the itemised details of a 413 of bulkUploadImages
bulkDetails(reasons) ==
  (IF ~reasons.monthlyLimit THEN {"monthly"} ELSE {})
  \cup (IF ~reasons.storageLimit THEN {"storage"} ELSE {})

\* the URL /api/images/<id>?size=<size>&token=<token>; NoToken for a URL
\* without token parameter
Url(id, size, token) == [imageId |-> id, size |-> size, token |-> token]

\* the URL fields with the bare URLs handed out for every asset
uploadUrls_AlwaysBare(id, isPublic) ==
  LET accessToken == Jwt("good", FALSE, id)
  IN [ accessToken |-> accessToken,
       accessUrl   |-> IF isPublic THEN Url(id, "original", NoToken)
                       ELSE Url(id, "original", accessToken),
       urls        |-> {Url(id, size, accessToken) : size \in IMAGE_SIZES},
       publicUrls  |-> {Url(id, size, NoToken) : size \in IMAGE_SIZES} ]

\* jwt.sign({imageId, applicationId}, JWT_SECRET, {expiresIn: '1h'}) and the
\* URL fields of the 201 response of uploadImage, each per-size map as the
\* set of its URLs; publicUrls is empty for the code's null
uploadUrls(id, isPublic) ==
  LET accessToken == Jwt("good", FALSE, id)
  IN [ accessToken |-> accessToken,
       accessUrl   |-> IF isPublic THEN Url(id, "original", NoToken)
                       ELSE Url(id, "original", accessToken),
       urls        |-> {Url(id, size, accessToken) : size \in IMAGE_SIZES},
       publicUrls  |-> IF isPublic
                       THEN {Url(id, size, NoToken) : size \in IMAGE_SIZES}
                       ELSE {} ]

\* the ledger with recordUpload made ahead of image.save()
saveThenRecord_RecordFirst(persisted, app, fileSize, saveFails) ==
  recordUpload(app, fileSize)

\* `await image.save(); await application.recordUpload(req.file.size)`: the
\* persisted usage afterwards.  A rejected save() throws past recordUpload.
saveThenRecord(persisted, app, fileSize, saveFails) ==
  IF saveFails THEN persisted ELSE recordUpload(app, fileSize)

\* ------------------------------------------------------------ operations
\* POST /images/upload: uploadMiddleware, then uploadImage.
\* t is the tenant authenticateApplication put into req.application;
\* saveFails says that image.save() rejects.
\* the live assets of tenant t that a query for the entity matches
entityImages(t, entityId, entityType) ==
  {i \in ImageIds : /\ findOwned(i, t)
                     /\ images[i].entityId = entityId
                     /\ images[i].entityType = entityType}

\* the asset uploadImage looks up as the one it replaces:
\* `if (entityId && entityType) existingImage = await Image.findOne({
\* application, entityId, entityType, isDeleted: false })`, the first match
\* in insertion order; {} when none
existingImage(t, b) ==
  LET found == entityImages(t, entityIdOf(b), b.entityType)
  IN IF truthy(entityIdOf(b)) /\ truthy(b.entityType) /\ found # {}
     THEN {CHOOSE i \in found : \A j \in found : i <= j}
     ELSE {}

\* an upload that saves the existing asset with the entry it pushed
keepExisting_Saved(old) ==
  preSave([old EXCEPT !.versions = Append(@, [path |-> old.path, variants |-> {}])])

\* the persisted record of the existing asset after uploadImage pushed an
\* entry onto existingImage.versions: the document is never saved
keepExisting(old) == old

UploadImage(t, f, b, saveFails) ==
  LET can == canUpload(usage[t], limits[t], f.size, now)
      id == Len(images) + 1
      doc == preSave(newImage(t, f, b, OrigBlob(id, 0)))
      r == [op |-> "upload", tenant |-> t, fragile |-> f.kind = "fragile",
            body |-> b]
  IN
  /\ UNCHANGED <<reqs, storageType, now, limits, purges>>
  /\ IF multerStatus(f) # 0 \/ ~validateFileType(f)
     THEN /\ resp' = r @@ [status |-> 400]
          /\ blobs' = IF storesFile(f) THEN addStray(blobs) ELSE blobs
          /\ UNCHANGED <<usage, images, accepted>>
     ELSE IF ~can.allowed
     THEN /\ resp' = r @@ [status |-> 413, details |-> uploadDetails(can.reasons),
                            reasons |-> can.reasons, limits |-> can.limits]
          /\ blobs' = addStray(blobs)
          /\ UNCHANGED <<usage, images, accepted>>
     ELSE IF saveFails \/ variantErrorEscapes(f)
     THEN /\ resp' = r @@ [status |-> 500]
          /\ blobs' = addStray(blobs)
          /\ usage' = [usage EXCEPT ![t] = saveThenRecord(@, can.usage, f.size, TRUE)]
          /\ UNCHANGED <<images, accepted>>
     ELSE /\ id <= MaxImages
          /\ images' = Append([i \in ImageIds |->
                                 IF i \in existingImage(t, b)
                                 THEN keepExisting(images[i]) ELSE images[i]],
                              doc)
          /\ blobs' = blobs \cup {doc.path}
                      \cup (IF doc.variants # {} THEN {VariantBlob(id)} ELSE {})
          /\ usage' = [usage EXCEPT ![t] = saveThenRecord(@, can.usage, f.size, FALSE)]
          /\ accepted' = [accepted EXCEPT ![t] =
                            [n |-> @.n + 1, bytes |-> @.bytes + f.size]]
          /\ resp' = r @@ [status |-> 201, imageId |-> id,
                           isPublic |-> doc.isPublic]
                        @@ uploadUrls(id, doc.isPublic)

\* a failing file ends the whole loop
nextAfterError_Abort(j, n) == n + 1

\* the per-file catch of bulkUploadImages pushes the error and the for loop
\* goes on: the index of the file processed after the failure of file j of n
nextAfterError(j, n) == j + 1

\* the per-file loop of bulkUploadImages from file j on.  st carries the
\* in-memory tenant document (usage), the persisted tenant usage (saved), the
\* catalog, the blob store and the two result lists; failAt is the set of
\* files whose image.save() rejects.
RECURSIVE bulkLoop(_, _, _, _, _, _)
bulkLoop(t, files, b, failAt, j, st) ==
  IF j > Len(files) THEN st
  ELSE
    LET f == files[j]
        id == Len(st.images) + 1
        doc == preSave(newImage(t, f, b, OrigBlob(id, 0)))
        \* file.s3 is undefined for a file that failed validation
        noS3 == storageType = "s3" /\ ~validateFileType(f)
        mem == recordUpload(st.usage, f.size)
    IN IF noS3
       THEN bulkLoop(t, files, b, failAt, nextAfterError(j, Len(files)),
                     [st EXCEPT !.errors = Append(@, j)])
       ELSE IF j \in failAt \/ variantErrorEscapes(f)
       THEN bulkLoop(t, files, b, failAt, nextAfterError(j, Len(files)),
                     [st EXCEPT !.errors = Append(@, j),
                                !.blobs = addStray(@)])
       ELSE bulkLoop(t, files, b, failAt, j + 1,
                     [st EXCEPT !.images = Append(@, doc),
                                !.usage = mem,
                                !.saved = mem,
                                !.blobs = @ \cup {doc.path} \cup
                                   (IF doc.variants # {} THEN {VariantBlob(id)} ELSE {}),
                                !.uploaded = Append(@, [imageId |-> id, size |-> doc.size,
                                                        file |-> j])])

\* req.files.reduce((sum, file) => sum + file.size, 0), and the same sum
\* over any sequence of byte sizes
RECURSIVE sumSizes(_)
sumSizes(sizes) ==
  IF sizes = << >> THEN 0 ELSE Head(sizes) + sumSizes(Tail(sizes))

\* POST /images/bulk-upload: bulkUploadMiddleware(10), then bulkUploadImages.
BulkUploadImages(t, files, b, failAt) ==
  LET n == Len(files)
      stored == {j \in 1..n : storesFile(files[j])}
      totalSize == sumSizes([j \in 1..n |-> files[j].size])
      can == canUpload(usage[t], limits[t], totalSize, now)
      r == [op |-> "bulk", tenant |-> t, total |-> n,
            fragile |-> {j \in 1..n : files[j].kind = "fragile"}, body |-> b]
      st0 == [usage |-> can.usage, saved |-> usage[t], images |-> images,
              blobs |-> blobs, uploaded |-> << >>, errors |-> << >>]
      st == bulkLoop(t, files, b, failAt, 1, st0)
  IN
  /\ n >= 1
  /\ UNCHANGED <<reqs, storageType, now, limits, purges>>
  /\ IF \E j \in 1..n : multerStatus(files[j]) # 0
     THEN /\ resp' = r @@ [status |-> 400]
          /\ UNCHANGED <<usage, images, blobs, accepted>>
     ELSE IF ~can.allowed
     THEN /\ resp' = r @@ [status |-> 413, details |-> bulkDetails(can.reasons),
                            reasons |-> can.reasons, limits |-> can.limits,
                            oversize |-> {j \in 1..n : files[j].size > limits[t].maxFileSize}]
          /\ blobs' = IF stored # {} THEN addStray(blobs) ELSE blobs
          /\ UNCHANGED <<usage, images, accepted>>
     ELSE /\ Len(st.images) <= MaxImages
          /\ images' = st.images
          /\ blobs' = st.blobs
          /\ usage' = [usage EXCEPT ![t] = st.saved]
          /\ accepted' = [accepted EXCEPT ![t] =
                [n |-> @.n + Len(st.uploaded),
                 bytes |-> @.bytes + sumSizes([k \in 1..Len(st.uploaded) |->
                                                  st.uploaded[k].size])]]
          /\ resp' = r @@ [status |-> 201, uploaded |-> st.uploaded,
                           errors |-> st.errors,
                           invalid |-> {j \in 1..n : ~validateFileType(files[j])},
                           summary |-> [total |-> n,
                                        successful |-> Len(st.uploaded),
                                        failed |-> Len(st.errors)]]

\* ----------------------------------------------------------- access broker
\* optionalApplicationAuth: req.application.id for an Authorization header
\* that is absent (NoValue), not a valid application token ("garbage"), or
\* the valid access token of a tenant
optionalApplicationAuth(bearer) ==
  IF bearer \in Tenants THEN bearer ELSE NoValue

\* req.userId on the image routes: only authenticateToken and optionalAuth
\* assign it, and the image routes use optionalApplicationAuth
reqUserId(bearer) == NoValue

\* whether the request carries a truthy token query parameter
hasToken(token) == token.jwt

\* getImage that accepts any verified token, whatever its imageId
getImageDecision_AnyToken(img, id, token, bearer) ==
  IF img.isPublic THEN 0
  ELSE IF hasToken(token)
  THEN IF ~jwtVerify(token) THEN 401 ELSE 0
  ELSE IF reqUserId(bearer) = NoValue THEN 401
  ELSE 500

\* The access decision of getImage for the asset it found: 0 when the read
\* goes on, else the status of the early return.  The Image schema has no
\* `owner` path, so image.owner.toString() throws into the outer catch (500).
getImageDecision(img, id, token, bearer) ==
  IF img.isPublic THEN 0
  ELSE IF hasToken(token)
  THEN IF ~jwtVerify(token) THEN 401
       ELSE IF token.imageId # id THEN 403
       ELSE 0
  ELSE IF reqUserId(bearer) = NoValue THEN 401
  ELSE 500

\* getImageInfo letting the owner's bearer in whatever the token says
getImageInfoDecision_BearerFirst(img, id, token, bearer) ==
  LET app == optionalApplicationAuth(bearer)
      hasAccess ==
        \/ app # NoValue /\ img.application = app
        \/ hasToken(token) /\ token.imageId = id
  IN IF img.isPublic THEN 0
     ELSE IF hasAccess THEN 0
     ELSE IF hasToken(token) /\ ~jwtVerify(token) THEN 401
     ELSE 403

\* getImageInfo without the public exemption
getImageInfoDecision_NoPublic(img, id, token, bearer) ==
  LET app == optionalApplicationAuth(bearer)
      hasAccess ==
        IF hasToken(token) THEN token.imageId = id
        ELSE app # NoValue /\ img.application = app
  IN IF hasToken(token) /\ ~jwtVerify(token) THEN 401
     ELSE IF ~hasAccess THEN 403
     ELSE 0

\* The access decision of getImageInfo for the asset it found.
getImageInfoDecision(img, id, token, bearer) ==
  LET app == optionalApplicationAuth(bearer)
      hasAccess ==
        IF hasToken(token) THEN token.imageId = id
        ELSE app # NoValue /\ img.application = app
  IN IF img.isPublic THEN 0
     ELSE IF hasToken(token) /\ ~jwtVerify(token) THEN 401
     ELSE IF ~hasAccess THEN 403
     ELSE 0

\* the outcome of the lookup and the access decision of getImage on the
\* current catalog: 404, the status of a denial, or 0 for a granted read
getImageOutcome(id, token, bearer) ==
  IF ~findLive(id) THEN 404
  ELSE getImageDecision(images[id], id, token, bearer)

\* the same for getImageInfo
getImageInfoOutcome(id, token, bearer) ==
  IF ~findLive(id) THEN 404
  ELSE getImageInfoDecision(images[id], id, token, bearer)

\* recordAccess that leaves the timestamp alone
recordAccess_NoTimestamp(img) ==
  preSave([img EXCEPT !.accessCount = @ + 1])

\* imageSchema.methods.recordAccess
recordAccess(img) ==
  preSave([img EXCEPT !.accessCount = @ + 1, !.lastAccessedAt = now])

\* the soft delete without its timestamp
softDelete_NoTimestamp(img) ==
  preSave([img EXCEPT !.isDeleted = TRUE])

\* imageSchema.methods.softDelete
softDelete(img) ==
  preSave([img EXCEPT !.isDeleted = TRUE, !.deletedAt = now])

\* what a read request looks like from the asset's side (recorded with the
\* response)
assetClass(id) ==
  IF id \notin ImageIds THEN "absent"
  ELSE IF images[id].isDeleted THEN "deleted"
  ELSE IF images[id].isPublic THEN "public"
  ELSE "private"

tokenClass(id, token) ==
  IF token = NoToken THEN "none"
  ELSE IF token = EmptyToken THEN "empty"
  ELSE IF token.sig # "good" \/ token.expired THEN "invalid"
  ELSE IF token.imageId = id THEN "match"
  ELSE "mismatch"

bearerClass(id, bearer) ==
  IF bearer \notin Tenants THEN "none"
  ELSE IF id \in ImageIds /\ images[id].application = bearer THEN "owner"
  ELSE "other"

readRequest(op, id, token, bearer) ==
  [op |-> op, asset |-> assetClass(id), token |-> tokenClass(id, token),
   bearer |-> bearerClass(id, bearer)]

\* the property names every JavaScript object answers through
\* Object.prototype, whatever its own keys are
ObjectPrototypeNames == {"constructor"}

\* `image.variants[size]` on the plain object the Mixed path holds: the
\* manifest entry, a member inherited from Object.prototype (truthy, with
\* neither path nor s3Key), or undefined
variantLookup(img, size) ==
  IF size \in img.variants THEN "entry"
  ELSE IF size \in ObjectPrototypeNames THEN "inherited"
  ELSE "undefined"

\* the storage handle that stands for an undefined path / s3Key
NoHandle == << >>

\* the size resolution of getImage: the blob to serve, the manifest entry it
\* is (the file <size>.webp of the variant directory), and the content type
resolveSize(img, id, size) ==
  IF size # "original" /\ variantLookup(img, size) # "undefined"
  THEN [target   |-> IF variantLookup(img, size) = "entry"
                     THEN VariantBlob(id) ELSE NoHandle,
        entry    |-> size,
        mimetype |-> "image/webp"]
  ELSE [target |-> img.path, entry |-> "original", mimetype |-> img.mimetype]

\* GET /images/:imageId: optionalApplicationAuth, then getImage.  path.resolve
\* and s3.getSignedUrl throw on an undefined handle, which the handler's
\* catch answers with 500 (after the access was recorded).
GetImage(id, token, bearer, size) ==
  LET r == readRequest("getImage", id, token, bearer) @@ [size |-> size]
      img == images[id]
      outcome == getImageOutcome(id, token, bearer)
      res == resolveSize(img, id, size)
      useVariant == res.entry # "original"
      target == res.target
      served == IF target = NoHandle THEN 500
                ELSE IF storageType = "s3" THEN 302
                ELSE IF target \in blobs THEN 200 ELSE 404
  IN
  /\ UNCHANGED <<reqs, storageType, now, limits, usage, blobs, purges, accepted>>
  /\ IF outcome # 0
     THEN /\ resp' = r @@ [status |-> outcome, granted |-> FALSE]
          /\ UNCHANGED images
     ELSE /\ img.accessCount < MaxAccess
          /\ images' = [images EXCEPT ![id] = recordAccess(img)]
          /\ resp' = r @@ [status |-> served, granted |-> TRUE,
                           imageId |-> id,
                           variant |-> useVariant, target |-> target,
                           entry |-> res.entry, mimetype |-> res.mimetype]

\* GET /images/:imageId/info: optionalApplicationAuth, then getImageInfo.
GetImageInfo(id, token, bearer) ==
  LET r == readRequest("getImageInfo", id, token, bearer)
      img == images[id]
      outcome == getImageInfoOutcome(id, token, bearer)
  IN
  /\ UNCHANGED <<reqs, storageType, now, limits, usage, blobs, purges, accepted>>
  /\ IF outcome # 0
     THEN /\ resp' = r @@ [status |-> outcome, granted |-> FALSE]
          /\ UNCHANGED images
     ELSE /\ img.accessCount < MaxAccess
          /\ images' = [images EXCEPT ![id] = recordAccess(img)]
          /\ resp' = r @@ [status |-> 200, granted |-> TRUE,
                           newToken |-> ~img.isPublic /\ ~hasToken(token)]

\* ------------------------------------------------------ owner operations
\* the blobs the setTimeout callback of deleteImage removes for the document
\* it captured: the original, the variant files when the current variant map
\* has entries, and the original of every archived version
purgeTargets(p) ==
  {p.path}
  \cup (IF p.variants # {} THEN {VariantBlob(p.imageId)} ELSE {})
  \cup {p.versions[k].path : k \in 1..Len(p.versions)}

\* the blobs a run of the callback can leave behind.  On disk every unlink
\* fails on its own and is ignored or logged; with S3 the first rejected call
\* throws into the callback's catch and skips the calls after it (original,
\* then variants, then the versions in one deleteObjects call).
purgeKept(p) ==
  IF storageType = "s3"
  THEN { {}, {p.versions[k].path : k \in 1..Len(p.versions)},
         purgeTargets(p) \ {p.path}, purgeTargets(p) }
  ELSE SUBSET purgeTargets(p)

\* DELETE /images/:imageId: authenticateApplication, then deleteImage.
DeleteImage(t, id) ==
  LET r == [op |-> "delete", tenant |-> t, asset |-> assetClass(id),
            bearer |-> bearerClass(id, t)]
  IN
  /\ UNCHANGED <<reqs, storageType, now, limits, usage, blobs, accepted>>
  /\ IF ~findOwned(id, t)
     THEN /\ resp' = r @@ [status |-> 404]
          /\ UNCHANGED <<images, purges>>
     ELSE /\ images' = [images EXCEPT ![id] = softDelete(images[id])]
          /\ purges' = purges \cup
               {[imageId |-> id, path |-> images[id].path,
                 variants |-> images[id].variants,
                 versions |-> images[id].versions]}
          /\ resp' = r @@ [status |-> 200]

\* the setTimeout callback scheduled by deleteImage; kept are the blobs whose
\* removal fails.  The callback runs once, logs, and touches neither the
\* record nor a response.
Purge(p, kept) ==
  /\ p \in purges
  /\ kept \in purgeKept(p)
  /\ purges' = purges \ {p}
  /\ blobs' = blobs \ (purgeTargets(p) \ kept)
  /\ UNCHANGED <<reqs, storageType, now, limits, usage, images, accepted, resp>>

\* the archive entry without the variant manifest
archiveVersion_NoManifest(old) ==
  Append(old.versions, [path |-> old.path, variants |-> {}])

\* `existingImage.versions.push({filename, path, s3Key, variants,
\* createdAt})` of replaceImage: the history with the current file appended
\* (the storage handle stands for filename, path and s3Key)
archiveVersion(old) ==
  Append(old.versions, [path |-> old.path, variants |-> old.variants])

\* the storage handles a file record of asset id (the current one or a
\* snapshot of the version history) refers to: its original, and through
\* its manifest the files variants/<imageId>/<size>.webp
recordHandles(id, rec) ==
  {rec.path} \cup (IF rec.variants \ {"original"} # {} THEN {VariantBlob(id)} ELSE {})

\* a replace that charges the difference of the two sizes
replaceUsage_Adjusts(u, old, f) ==
  [u EXCEPT !.totalStorageUsed = @ - old.size + f.size]

\* the tenant ledger after a successful replaceImage: the handler calls
\* neither canUpload nor recordUpload and never saves req.application
replaceUsage(u, old, f) == u

\* PUT /images/:imageId: authenticateApplication, uploadMiddleware, then
\* replaceImage.
ReplaceImage(t, id, f) ==
  LET r == [op |-> "replace", tenant |-> t, asset |-> assetClass(id),
            bearer |-> bearerClass(id, t), fragile |-> f.kind = "fragile"]
      old == images[id]
      variants == generateImageVariants(f)
      doc == preSave([old EXCEPT
               !.versions = archiveVersion(old),
               !.size = f.size,
               !.mimetype = mimetypeOf(f),
               !.variants = variants,
               !.path = OrigBlob(id, Len(old.versions) + 1)])
  IN
  /\ UNCHANGED <<reqs, storageType, now, limits, purges, accepted>>
  /\ IF multerStatus(f) # 0 \/ ~validateFileType(f)
     THEN /\ resp' = r @@ [status |-> 400]
          /\ blobs' = IF storesFile(f) THEN addStray(blobs) ELSE blobs
          /\ UNCHANGED <<images, usage>>
     ELSE IF ~findOwned(id, t)
     THEN /\ resp' = r @@ [status |-> 404]
          /\ blobs' = addStray(blobs)
          /\ UNCHANGED <<images, usage>>
     ELSE IF variantErrorEscapes(f)
     THEN /\ resp' = r @@ [status |-> 500]
          /\ blobs' = addStray(blobs)
          /\ UNCHANGED <<images, usage>>
     ELSE /\ Len(old.versions) < MaxVersions
          /\ images' = [images EXCEPT ![id] = doc]
          /\ usage' = [usage EXCEPT ![t] = replaceUsage(@, old, f)]
          /\ blobs' = blobs \cup {doc.path}
                      \cup (IF variants # {} THEN {VariantBlob(id)} ELSE {})
          /\ resp' = r @@ [status |-> 200, imageId |-> id,
                           accessToken |-> Jwt("good", FALSE, id),
                           versionsCount |-> Len(doc.versions)]

\* PATCH /images/:imageId/metadata: authenticateApplication, then
\* updateImageMetadata.  category is NoValue when the body has none.
UpdateImageMetadata(t, id, category) ==
  LET r == [op |-> "metadata", tenant |-> t, asset |-> assetClass(id),
            bearer |-> bearerClass(id, t)]
      doc == preSave(IF category # NoValue
                     THEN [images[id] EXCEPT !.category = category]
                     ELSE images[id])
  IN
  /\ UNCHANGED <<reqs, storageType, now, limits, usage, blobs, purges, accepted>>
  /\ IF ~findOwned(id, t)
     THEN /\ resp' = r @@ [status |-> 404]
          /\ UNCHANGED images
     ELSE /\ images' = [images EXCEPT ![id] = doc]
          /\ resp' = r @@ [status |-> 200]

\* GET /images: authenticateApplication, then listImages (no filter).  The
\* response is recorded with the ids that were soft-deleted when it was made.
ListImages(t) ==
  /\ resp' = [op |-> "list", tenant |-> t, status |-> 200,
              listed |-> {id \in ImageIds : findOwned(id, t)},
              deleted |-> {id \in ImageIds : images[id].isDeleted}]
  /\ UNCHANGED <<reqs, storageType, now, limits, usage, images, blobs, purges, accepted>>

\* GET /images?entityId=..&entityType=..: listImages with the entity filter
ListEntityImages(t, entityId, entityType) ==
  /\ resp' = [op |-> "list", tenant |-> t, status |-> 200,
              entityId |-> entityId, entityType |-> entityType,
              listed |-> entityImages(t, entityId, entityType),
              deleted |-> {id \in ImageIds : images[id].isDeleted}]
  /\ UNCHANGED <<reqs, storageType, now, limits, usage, images, blobs, purges, accepted>>

\* GET /images/categories/list: authenticateApplication, then getCategories.
\* The response is recorded with the categories the tenant's non-deleted
\* assets had when it was made.
GetCategories(t) ==
  /\ resp' = [op |-> "categories", tenant |-> t, status |-> 200,
              categories |-> {images[id].category :
                                id \in {i \in ImageIds : findOwned(i, t)}},
              live |-> {images[id].category :
                          id \in {i \in ImageIds :
                                    images[i].application = t /\ ~images[i].isDeleted}}]
  /\ UNCHANGED <<reqs, storageType, now, limits, usage, images, blobs, purges, accepted>>

\* the clock reaches the next calendar month
Tick ==
  /\ now < MaxMonth
  /\ now' = now + 1
  /\ UNCHANGED <<reqs, storageType, limits, usage, images, blobs, purges, accepted, resp>>

\* ------------------------------------------- the upload handlers, stepwise
\* The same two handlers with their awaits as separate steps, so that two
\* requests overlap and the clock moves inside a request.  A connection
\* sends one request: it is Idle, carries the admitted request (its position
\* pc, the files, the index j of the file in work, the in-memory tenant
\* document app, dirty when canUpload's reset modified lastResetDate, and
\* the calls made so far, log), or is Finished with the calls it made.
Slots == {"r1", "r2"}
Idle == [pc |-> "idle", log |-> << >>]
Finished(log) == [pc |-> "done", log |-> log]

\* the stored file j of the request on connection s until it has a record,
\* and its variant directory
PendingBlob(s, j) == <<"pending", s, j>>
PendingVariants(s, j) == <<"pendingvariants", s, j>>

\* the order of the awaits after admission with recordUpload ahead of save
nextStep_RecordFirst(pc) ==
  CASE pc = "admit" -> "variants"
    [] pc = "variants" -> "record"
    [] pc = "record" -> "save"
    [] pc = "save" -> "token"

\* the order of the awaits of uploadImage and of the loop body of
\* bulkUploadImages after admission
nextStep(pc) ==
  CASE pc = "admit" -> "variants"
    [] pc = "variants" -> "save"
    [] pc = "save" -> "record"
    [] pc = "record" -> "token"

\* application.save() of recordUpload: mongoose writes the modified paths
saveUsage(persisted, app, dirty) ==
  [persisted EXCEPT !.totalImages = app.totalImages,
                    !.totalStorageUsed = app.totalStorageUsed,
                    !.currentMonthUploads = app.currentMonthUploads,
                    !.lastResetDate = IF dirty THEN app.lastResetDate ELSE @]

\* the response that ends the request rq
finalResponse(rq) ==
  IF rq.bulk
  THEN [op |-> "bulk", tenant |-> rq.tenant, total |-> Len(rq.files), status |-> 201,
        uploaded |-> rq.uploaded, errors |-> rq.errors, log |-> rq.log]
  ELSE [op |-> "upload", tenant |-> rq.tenant, status |-> 201,
        imageId |-> rq.id, isPublic |-> images[rq.id].isPublic, log |-> rq.log]

\* the request goes on with its next file, or answers
Advance(s, rq) ==
  IF rq.bulk /\ rq.j < Len(rq.files)
  THEN /\ reqs' = [reqs EXCEPT ![s] = [rq EXCEPT !.j = @ + 1, !.pc = nextStep("admit")]]
       /\ UNCHANGED resp
  ELSE /\ reqs' = [reqs EXCEPT ![s] = Finished(rq.log)]
       /\ resp' = finalResponse(rq)

\* uploadMiddleware / bulkUploadMiddleware, Application.findById and
\* canUpload: the request is answered 400 or 413, or admitted
StepAdmit(s, t, files, b, bulk) ==
  LET n == Len(files)
      totalSize == sumSizes([j \in 1..n |-> files[j].size])
      can == canUpload(usage[t], limits[t], totalSize, now)
      stored == {j \in 1..n : storesFile(files[j])}
      r == [op |-> IF bulk THEN "bulk" ELSE "upload", tenant |-> t]
      refused == IF bulk THEN \E j \in 1..n : multerStatus(files[j]) # 0
                 ELSE multerStatus(files[1]) # 0 \/ ~validateFileType(files[1])
  IN
  /\ reqs[s] = Idle
  /\ n >= 1 /\ (~bulk => n = 1)
  /\ UNCHANGED <<storageType, now, limits, usage, images, purges, accepted>>
  /\ IF refused
     THEN /\ resp' = r @@ [status |-> 400, log |-> << >>]
          /\ blobs' = IF ~bulk /\ stored # {} THEN addStray(blobs) ELSE blobs
          /\ reqs' = [reqs EXCEPT ![s] = Finished(<< >>)]
     ELSE IF ~can.allowed
     THEN /\ resp' = r @@ [status |-> 413, log |-> <<"canUpload">>,
                            details |-> IF bulk THEN bulkDetails(can.reasons)
                                        ELSE uploadDetails(can.reasons),
                            reasons |-> can.reasons, limits |-> can.limits]
          /\ blobs' = IF stored # {} THEN addStray(blobs) ELSE blobs
          /\ reqs' = [reqs EXCEPT ![s] = Finished(<<"canUpload">>)]
     ELSE /\ reqs' = [reqs EXCEPT ![s] =
                 [pc |-> nextStep("admit"), bulk |-> bulk, tenant |-> t,
                  files |-> files, body |-> b, j |-> 1,
                  app |-> can.usage,
                  dirty |-> can.usage.lastResetDate # usage[t].lastResetDate,
                  variants |-> {}, id |-> NoImageId,
                  uploaded |-> << >>, errors |-> << >>, log |-> <<"canUpload">>]]
          /\ blobs' = blobs \cup {PendingBlob(s, j) : j \in stored}
          /\ UNCHANGED resp

\* generateImageVariants / generateS3ImageVariants inside its try/catch
StepVariants(s) ==
  LET rq == reqs[s]
      variants == generateImageVariants(rq.files[rq.j])
  IN
  /\ rq.pc = "variants"
  /\ reqs' = [reqs EXCEPT ![s] = [rq EXCEPT !.pc = nextStep("variants"),
                                            !.variants = variants,
                                            !.log = Append(@, "variants")]]
  /\ blobs' = blobs \cup (IF variants # {} THEN {PendingVariants(s, rq.j)} ELSE {})
  /\ UNCHANGED <<storageType, now, limits, usage, images, purges, accepted, resp>>

\* new Image(imageData) and image.save(); fails says that save() rejects.
\* In a bulk request a file without file.s3 throws before the save.
StepSave(s, fails) ==
  LET rq == reqs[s]
      f == rq.files[rq.j]
      id == Len(images) + 1
      doc == preSave([newImage(rq.tenant, f, rq.body, OrigBlob(id, 0))
                        EXCEPT !.variants = rq.variants])
      noS3 == rq.bulk /\ storageType = "s3" /\ ~validateFileType(f)
      pending == {PendingBlob(s, rq.j), PendingVariants(s, rq.j)}
      failed == [rq EXCEPT !.errors = Append(@, rq.j),
                           !.log = Append(@, IF noS3 THEN "error" ELSE "saveFailed")]
  IN
  /\ rq.pc = "save"
  /\ UNCHANGED <<storageType, now, limits, usage, purges>>
  /\ IF noS3 \/ fails
     THEN /\ blobs' = IF blobs \cap pending # {}
                      THEN addStray(blobs \ pending) ELSE blobs
          /\ UNCHANGED <<images, accepted>>
          /\ IF rq.bulk
             THEN Advance(s, failed)
             ELSE /\ reqs' = [reqs EXCEPT ![s] = Finished(failed.log)]
                  /\ resp' = [op |-> "upload", tenant |-> rq.tenant,
                              status |-> 500, log |-> failed.log]
     ELSE /\ id <= MaxImages
          /\ images' = Append(images, doc)
          /\ blobs' = (blobs \ pending) \cup {doc.path}
                      \cup (IF doc.variants # {} THEN {VariantBlob(id)} ELSE {})
          /\ accepted' = [accepted EXCEPT ![rq.tenant] =
                            [n |-> @.n + 1, bytes |-> @.bytes + f.size]]
          /\ reqs' = [reqs EXCEPT ![s] = [rq EXCEPT !.pc = nextStep("save"),
                                                    !.id = id,
                                                    !.log = Append(@, "save")]]
          /\ UNCHANGED resp

\* application.recordUpload(file.size) on the in-memory tenant document
StepRecord(s) ==
  LET rq == reqs[s]
      mem == recordUpload(rq.app, rq.files[rq.j].size)
  IN
  /\ rq.pc = "record"
  /\ usage' = [usage EXCEPT ![rq.tenant] = saveUsage(@, mem, rq.dirty)]
  /\ reqs' = [reqs EXCEPT ![s] = [rq EXCEPT !.pc = nextStep("record"),
                                            !.app = mem,
                                            !.dirty = FALSE,
                                            !.log = Append(@, "recordUpload")]]
  /\ UNCHANGED <<storageType, now, limits, images, blobs, purges, accepted, resp>>

\* jwt.sign, then the response or the next file
StepToken(s) ==
  LET rq == reqs[s]
      done == [rq EXCEPT !.log = Append(@, "token"),
                         !.uploaded = Append(@, [imageId |-> rq.id,
                                                 size |-> rq.files[rq.j].size])]
  IN
  /\ rq.pc = "token"
  /\ Advance(s, done)
  /\ UNCHANGED <<storageType, now, limits, usage, images, blobs, purges, accepted>>

\* --------------------------------------------------- getImage, stepwise
\* getImage with its two database calls as separate steps, so that reads on
\* two connections overlap.

\* image.save() of recordAccess: mongoose writes the paths modified on the
\* loaded document doc
saveAccess(persisted, doc) ==
  [persisted EXCEPT !.accessCount = doc.accessCount,
                    !.lastAccessedAt = doc.lastAccessedAt]

\* Image.findOne({imageId, isDeleted: false}) and the access decision: the
\* request is answered 404, 401 or 403, or goes on with the loaded document
ReadFind(s, id, token, bearer) ==
  LET r == readRequest("getImage", id, token, bearer)
      outcome == getImageOutcome(id, token, bearer)
  IN
  /\ reqs[s] = Idle
  /\ UNCHANGED <<storageType, now, limits, usage, images, blobs, purges, accepted>>
  /\ IF outcome # 0
     THEN /\ resp' = r @@ [status |-> outcome, granted |-> FALSE]
          /\ reqs' = [reqs EXCEPT ![s] = Finished(<<"findOne">>)]
     ELSE /\ reqs' = [reqs EXCEPT ![s] =
                 [pc |-> "access", id |-> id, doc |-> images[id],
                  request |-> r, log |-> <<"findOne">>]]
          /\ UNCHANGED resp

\* image.recordAccess() on the loaded document, then the file is served
ReadRecord(s) ==
  LET rq == reqs[s]
      doc == recordAccess(rq.doc)
  IN
  /\ rq.pc = "access"
  /\ images' = [images EXCEPT ![rq.id] = saveAccess(@, doc)]
  /\ reqs' = [reqs EXCEPT ![s] = Finished(Append(rq.log, "recordAccess"))]
  /\ resp' = rq.request @@ [status |-> IF storageType = "s3" THEN 302 ELSE 200,
                            granted |-> TRUE]
  /\ UNCHANGED <<storageType, now, limits, usage, blobs, purges, accepted>>

\* ---------------------------------------------------------- specifications
\* The service after start-up: registered tenants with fresh ledgers, an
\* empty catalog and an empty blob store.
Start ==
  /\ storageType \in {"local", "s3"}
  /\ now = 0
  /\ usage = [t \in Tenants |->
                [totalImages |-> 0, totalStorageUsed |-> 0,
                 currentMonthUploads |-> 0, lastResetDate |-> 0]]
  /\ images = << >>
  /\ blobs = {}
  /\ purges = {}
  /\ accepted = [t \in Tenants |-> [n |-> 0, bytes |-> 0]]
  /\ resp = [op |-> "none", status |-> 0]
  /\ reqs = [s \in Slots |-> Idle]

\* t1 is on the roomy plan, t2 on the tight one
Init == Start /\ limits = [t \in Tenants |-> IF t = "t1" THEN RoomyLimits ELSE TightLimits]

\* inputs of the ingestion runs
LedgerFiles ==
  { [size |-> 1, kind |-> "image"], [size |-> 2, kind |-> "image"],
    [size |-> 1, kind |-> "corrupt"], [size |-> 1, kind |-> "filtered"],
    [size |-> 3, kind |-> "image"] }
BulkFiles ==
  { [size |-> 1, kind |-> "image"], [size |-> 2, kind |-> "image"],
    [size |-> 1, kind |-> "corrupt"] }
LedgerBodies ==
  { [category |-> NoValue, entityType |-> NoValue, productId |-> NoValue] }
Uploaders == {"t1"}
BulkRequests ==
  UNION {[1..n -> BulkFiles] : n \in 1..MaxBulk}

Next ==
  \/ Tick
  \/ \E t \in Tenants, f \in LedgerFiles, b \in LedgerBodies, saveFails \in BOOLEAN :
       UploadImage(t, f, b, saveFails)
  \/ \E t \in Uploaders, files \in BulkRequests, b \in LedgerBodies :
       \E failAt \in {{}, {1}} :
         BulkUploadImages(t, files, b, failAt)

Spec == Init /\ [][Next]_vars

ReadOps == {"getImage", "getImageInfo"}

\* inputs of the access runs
AccessFiles == { [size |-> 1, kind |-> "image"] }
AccessBodies ==
  { [category |-> NoValue, entityType |-> NoValue, productId |-> NoValue],
    [category |-> "product", entityType |-> NoValue, productId |-> NoValue] }
RequestIds == 1..(MaxAssets + 1)
Tokens ==
  {NoToken, EmptyToken}
  \cup {Jwt("good", FALSE, i) : i \in RequestIds \cup {NoImageId}}
  \cup {Jwt("bad", FALSE, 1), Jwt("good", TRUE, 1)}
Bearers == {NoValue, "garbage"} \cup Tenants
SizeNames == {"original", "thumbnail", "banner"}

InitAccess == Start /\ limits = [t \in Tenants |-> RoomyLimits]

NextAccess ==
  \/ \E f \in AccessFiles, b \in AccessBodies :
       Len(images) < MaxAssets /\ UploadImage("t1", f, b, FALSE)
  \/ \E id \in RequestIds, token \in Tokens, bearer \in Bearers, size \in SizeNames :
       GetImage(id, token, bearer, size)
  \/ \E id \in RequestIds, token \in Tokens, bearer \in Bearers :
       GetImageInfo(id, token, bearer)
  \/ \E t \in Tenants, id \in RequestIds : DeleteImage(t, id)

SpecAccess == InitAccess /\ [][NextAccess]_vars

\* inputs of the catalog runs: tenant t1 is on a plan of one image a month
CatalogFiles == { [size |-> 1, kind |-> "image"], [size |-> 1, kind |-> "corrupt"] }
CatalogBodies ==
  { [category |-> NoValue, entityType |-> NoValue, productId |-> NoValue] }
CatalogLimits == [maxFileSize |-> 2, maxImagesPerMonth |-> 1, maxStorageSize |-> 6]
CatalogIds == 1..(Len(images) + 1)
CatalogTokens == {NoToken} \cup {Jwt("good", FALSE, i) : i \in CatalogIds}
CatalogBearers == {NoValue, "t1"}

InitCatalog == Start /\ limits = [t \in Tenants |-> CatalogLimits]

NextCatalog ==
  \/ \E f \in CatalogFiles, b \in CatalogBodies : UploadImage("t1", f, b, FALSE)
  \/ \E id \in CatalogIds, token \in CatalogTokens, bearer \in CatalogBearers :
       GetImage(id, token, bearer, "thumbnail")
  \/ \E id \in CatalogIds, token \in CatalogTokens, bearer \in CatalogBearers :
       GetImageInfo(id, token, bearer)
  \/ \E t \in Tenants, id \in CatalogIds : DeleteImage(t, id)
  \/ \E t \in Tenants, id \in CatalogIds, f \in CatalogFiles : ReplaceImage(t, id, f)
  \/ \E t \in Tenants, id \in CatalogIds, c \in {NoValue, "personal", "product"} :
       UpdateImageMetadata(t, id, c)
  \/ \E t \in Tenants : ListImages(t)
  \/ \E t \in Tenants : GetCategories(t)
  \/ \E p \in purges : \E kept \in purgeKept(p) : Purge(p, kept)

SpecCatalog == InitCatalog /\ [][NextCatalog]_vars

\* inputs of the ledger-decision runs: canUpload applied to a tenant document
\* in any state of its counters and limits
\* Uploads, bulk uploads and replacements by one tenant on the roomy plan,
\* with files whose variants can and cannot be generated; the database
\* accepts every write.
VariantFiles ==
  { [size |-> 1, kind |-> "image"], [size |-> 1, kind |-> "fragile"] }
VariantBulkRequests ==
  UNION { [1..n -> VariantFiles] : n \in 1..MaxBulk }
NextVariants ==
  \/ \E f \in VariantFiles, b \in LedgerBodies :
       Len(images) < MaxAssets /\ UploadImage("t1", f, b, FALSE)
  \/ \E files \in VariantBulkRequests, b \in LedgerBodies :
       Len(images) < MaxAssets /\ BulkUploadImages("t1", files, b, {})
  \/ \E id \in {1, Len(images) + 1}, f \in VariantFiles : ReplaceImage("t1", id, f)
SpecVariants == InitAccess /\ [][NextVariants]_vars

\* Uploads, replacements and deletions by one tenant with files whose
\* variants can and cannot be generated, on a blob store that rejects no
\* call: every removal the setTimeout callback attempts succeeds.
NextPurge ==
  \/ \E f \in VariantFiles, b \in LedgerBodies :
       Len(images) < MaxImages /\ UploadImage("t1", f, b, FALSE)
  \/ \E id \in ImageIds, f \in VariantFiles : ReplaceImage("t1", id, f)
  \/ \E id \in ImageIds : DeleteImage("t1", id)
  \/ \E p \in purges : Purge(p, {})
SpecPurge == InitAccess /\ [][NextPurge]_vars

\* Byte reads with the asset's token, at every kind of size name, of assets uploaded
\* and replaced with png and jpeg files whose variants can and cannot be
\* generated.
ServeFiles ==
  [size : {1}, kind : {"image", "fragile"}, mimetype : {"image/png", "image/jpeg"}]
ServeSizes == {"original", "thumbnail", "banner"} \cup ObjectPrototypeNames
NextServe ==
  \/ \E f \in ServeFiles, b \in LedgerBodies :
       Len(images) < MaxAssets /\ UploadImage("t1", f, b, FALSE)
  \/ \E id \in ImageIds, f \in ServeFiles : ReplaceImage("t1", id, f)
  \/ \E id \in ImageIds, size \in ServeSizes :
       GetImage(id, Jwt("good", FALSE, id), NoValue, size)
SpecServe == InitAccess /\ [][NextServe]_vars

\* Uploads and bulk uploads of one valid image with every combination of
\* the classification fields, and with an isPublic field in the body.
PublicBodies ==
  [ category   : {NoValue, "personal", "product", "electronics", "clothing",
                  "accessories"},
    entityType : {NoValue, "profile", "product"},
    productId  : {NoValue, "", "p1"},
    isPublic   : {NoValue, "true"} ]
NextPublic ==
  \/ \E f \in AccessFiles, b \in PublicBodies :
       Len(images) < MaxAssets /\ UploadImage("t1", f, b, FALSE)
  \/ \E f \in AccessFiles, b \in PublicBodies :
       Len(images) < MaxAssets /\ BulkUploadImages("t1", <<f>>, b, {})
SpecPublic == InitAccess /\ [][NextPublic]_vars

\* Bulk uploads by a tenant whose plan allows files of one unit, with files
\* of one and two units (both within the service-wide MAX_FILE_SIZE).
BulkPlan == [maxFileSize |-> 1, maxImagesPerMonth |-> 3, maxStorageSize |-> 6]
BulkPlanFiles ==
  [size : 1..MAX_FILE_SIZE, kind : {"image", "corrupt"}]
BulkPlanRequests ==
  UNION {[1..n -> BulkPlanFiles] : n \in 1..MaxBulk}
InitBulk == Start /\ limits = [t \in Tenants |-> BulkPlan]
NextBulk ==
  \/ Tick
  \/ \E files \in BulkPlanRequests, b \in LedgerBodies, failAt \in {{}, {1}} :
       BulkUploadImages("t1", files, b, failAt)
SpecBulk == InitBulk /\ [][NextBulk]_vars

CanLimits == [maxFileSize : 0..MAX_FILE_SIZE,
              maxImagesPerMonth : 0..MaxImages,
              maxStorageSize : 0..(MaxImages * MAX_FILE_SIZE)]
CanUsages ==
  {u \in [totalImages : 0..MaxImages,
          totalStorageUsed : 0..(MaxImages * MAX_FILE_SIZE),
          currentMonthUploads : 0..MaxImages,
          lastResetDate : 0..MaxMonth] :
     /\ u.currentMonthUploads <= u.totalImages
     /\ u.totalImages <= u.totalStorageUsed}

InitCan ==
  /\ storageType = "local"
  /\ now \in 0..MaxMonth
  /\ \E l \in CanLimits :
       limits = [t \in Tenants |-> IF t = "t1" THEN l ELSE RoomyLimits]
  /\ \E u \in CanUsages :
       /\ u.lastResetDate <= now
       /\ usage = [t \in Tenants |-> IF t = "t1" THEN u ELSE
                     [totalImages |-> 0, totalStorageUsed |-> 0,
                      currentMonthUploads |-> 0, lastResetDate |-> 0]]
  /\ images = << >>
  /\ blobs = {}
  /\ purges = {}
  /\ accepted = [t \in Tenants |-> [n |-> usage[t].totalImages,
                                    bytes |-> usage[t].totalStorageUsed]]
  /\ resp = [op |-> "none", status |-> 0]
  /\ reqs = [s \in Slots |-> Idle]

\* application.canUpload(fileSize) on the tenant document as loaded
CanUploadCall(t, fileSize) ==
  LET can == canUpload(usage[t], limits[t], fileSize, now)
  IN /\ resp' = [op |-> "canUpload", tenant |-> t, fileSize |-> fileSize,
                 allowed |-> can.allowed, reasons |-> can.reasons,
                 limits |-> can.limits]
     /\ UNCHANGED <<reqs, storageType, now, limits, usage, images, blobs, purges, accepted>>

NextCan ==
  \E t \in Tenants, fileSize \in 0..(MaxBulk * MAX_FILE_SIZE) : CanUploadCall(t, fileSize)

SpecCan == InitCan /\ [][NextCan]_vars

\* inputs of the stepwise runs: tenant t1 uploads over two connections
StepFiles ==
  { [size |-> 1, kind |-> "image"], [size |-> 2, kind |-> "image"],
    [size |-> 1, kind |-> "corrupt"] }
StepBulkFiles == { [size |-> 1, kind |-> "image"], [size |-> 1, kind |-> "corrupt"] }
StepBulkRequests == UNION {[1..n -> StepBulkFiles] : n \in 1..MaxBulk}

\* the connections are used in order (they are interchangeable)
FirstIdle(s) == s = "r2" => reqs["r1"] # Idle

NextSteps ==
  \/ Tick
  \/ \E s \in Slots, f \in StepFiles, b \in LedgerBodies :
       FirstIdle(s) /\ StepAdmit(s, "t1", <<f>>, b, FALSE)
  \/ \E s \in Slots, files \in StepBulkRequests, b \in LedgerBodies :
       FirstIdle(s) /\ StepAdmit(s, "t1", files, b, TRUE)
  \/ \E s \in Slots : StepVariants(s)
  \/ \E s \in Slots, fails \in BOOLEAN : StepSave(s, fails)
  \/ \E s \in Slots : StepRecord(s)
  \/ \E s \in Slots : StepToken(s)

SpecSteps == InitAccess /\ [][NextSteps]_vars

\* The stepwise handlers for tenants whose plan holds one upload a month and
\* two units of storage, so that a second upload does not fit.
RacePlan == [maxFileSize |-> 2, maxImagesPerMonth |-> 1, maxStorageSize |-> 2]
InitRace == Start /\ limits = [t \in Tenants |-> RacePlan]
SpecRace == InitRace /\ [][NextSteps]_vars

\* Reads of the first asset on two connections, with the steps of getImage
\* interleaved.
ReadTokens == {NoToken, Jwt("good", FALSE, 1), Jwt("good", FALSE, NoImageId)}
NextReads ==
  \/ Tick
  \/ \E f \in AccessFiles, b \in AccessBodies :
       Len(images) < MaxAssets /\ UploadImage("t1", f, b, FALSE)
  \/ \E s \in Slots, token \in ReadTokens :
       FirstIdle(s) /\ ReadFind(s, 1, token, NoValue)
  \/ \E s \in Slots : ReadRecord(s)
SpecReads == InitAccess /\ [][NextReads]_vars

\* The owner operations and reads of a tenant whose plan (one image a
\* month, two units of storage) is used up by its first upload; files of
\* one and of two units.
FrameFiles == { [size |-> 1, kind |-> "image"], [size |-> 2, kind |-> "image"] }
FrameOps == {"delete", "replace", "metadata", "list", "categories"} \cup ReadOps
NextFrame ==
  \/ \E f \in FrameFiles, b \in LedgerBodies : UploadImage("t1", f, b, FALSE)
  \/ \E id \in ImageIds : \E token \in {NoToken, Jwt("good", FALSE, id)} :
       GetImage(id, token, NoValue, "original")
  \/ \E id \in ImageIds, bearer \in {NoValue, "t1"} : GetImageInfo(id, NoToken, bearer)
  \/ \E id \in ImageIds : DeleteImage("t1", id)
  \/ \E id \in ImageIds, f \in FrameFiles : ReplaceImage("t1", id, f)
  \/ \E id \in ImageIds, c \in {NoValue, "product"} : UpdateImageMetadata("t1", id, c)
  \/ ListImages("t1")
  \/ GetCategories("t1")
  \/ \E p \in purges : Purge(p, {})
SpecFrame == InitRace /\ [][NextFrame]_vars

\* Uploads that name an entity or none, replaces of the first asset, deletes
\* and listings by entity, all by one tenant on the roomy plan.
EntityBodies ==
  [ category : {NoValue}, productId : {NoValue},
    entityId : {NoValue, "e1"}, entityType : {NoValue, "profile"} ]
NextEntity ==
  \/ \E f \in AccessFiles, b \in EntityBodies : UploadImage("t1", f, b, FALSE)
  \/ \E f \in AccessFiles : ReplaceImage("t1", 1, f)
  \/ \E id \in ImageIds : DeleteImage("t1", id)
  \/ ListEntityImages("t1", "e1", "profile")
SpecEntity == InitAccess /\ [][NextEntity]_vars

\* The read decision as a function of the Application collection.  A state
\* of the collection gives every tenant its isActive flag and its
\* settings.enablePublicAccess.
AppFlags == [isActive : BOOLEAN, enablePublicAccess : BOOLEAN]
AppStates == [Tenants -> AppFlags]

\* optionalApplicationAuth on a collection in state apps: req.application is
\* set only for the valid token of an application that is found and active
authAs(apps, bearer) ==
  IF bearer \in Tenants /\ apps[bearer].isActive THEN bearer ELSE NoValue

\* a public exemption that asks the owning tenant
publicExempt_OwnerSetting(apps, img) ==
  /\ img.isPublic
  /\ apps[img.application].isActive
  /\ apps[img.application].enablePublicAccess

\* `if (image.isPublic)` of getImage and getImageInfo: the handlers never
\* load the Application that owns the asset
publicExempt(apps, img) == img.isPublic

\* the outcome of a read (404, the status of a denial, 0 when the read goes
\* on) on the current catalog when the Application collection is apps
readOutcome(apps, read, id, token, bearer) ==
  IF ~findLive(id) THEN 404
  ELSE LET img == [images[id] EXCEPT !.isPublic = publicExempt(apps, images[id])]
       IN IF read = "getImage"
          THEN getImageDecision(img, id, token, authAs(apps, bearer))
          ELSE getImageInfoDecision(img, id, token, authAs(apps, bearer))

\* one read request decided on every state of the Application collection
ReadDecisionCall(read, id, token, bearer) ==
  /\ resp' = readRequest(read, id, token, bearer)
              @@ [bearerToken |-> bearer,
                  outcomes |-> [apps \in AppStates |->
                                  readOutcome(apps, read, id, token, bearer)]]
  /\ UNCHANGED <<reqs, storageType, now, limits, usage, images, blobs, purges, accepted>>

\* Private and public assets of tenant t1, live and deleted, and reads with
\* and without credentials.
NextTenantFlags ==
  \/ \E f \in AccessFiles, b \in AccessBodies :
       Len(images) < MaxAssets /\ UploadImage("t1", f, b, FALSE)
  \/ \E id \in ImageIds : DeleteImage("t1", id)
  \/ \E read \in ReadOps, id \in RequestIds, bearer \in {NoValue, "t1", "t2"} :
       \E token \in {NoToken, Jwt("good", FALSE, 1), Jwt("good", TRUE, 1)} :
         ReadDecisionCall(read, id, token, bearer)
SpecTenantFlags == InitAccess /\ [][NextTenantFlags]_vars

\* The asset a tenant on the plan of one image a month uploads, with or
\* without the classification fields, then re-categorised, replaced, read
\* and deleted by its owner.
ClassifyBodies ==
  [ category   : {NoValue, "personal", "accessories"},
    entityType : {NoValue, "product"},
    productId  : {NoValue, "p1"} ]
ClassifyCategories ==
  {NoValue, "personal", "product", "electronics", "clothing", "accessories"}
NextClassify ==
  \/ \E f \in AccessFiles, b \in ClassifyBodies : UploadImage("t1", f, b, FALSE)
  \/ \E id \in ImageIds, c \in ClassifyCategories : UpdateImageMetadata("t1", id, c)
  \/ \E id \in ImageIds, f \in AccessFiles : ReplaceImage("t1", id, f)
  \/ \E id \in ImageIds : GetImage(id, Jwt("good", FALSE, id), NoValue, "original")
  \/ \E id \in ImageIds : GetImageInfo(id, NoToken, "t1")
  \/ \E id \in ImageIds : DeleteImage("t1", id)
SpecClassify == InitCatalog /\ [][NextClassify]_vars

\* Single and bulk uploads, one request at a time, by a tenant on the plan
\* of one image a month and two units of storage, over the months.
QuotaFiles == { [size |-> 1, kind |-> "image"], [size |-> 2, kind |-> "image"] }
QuotaRequests == UNION { [1..n -> QuotaFiles] : n \in 1..MaxBulk }
NextQuota ==
  \/ Tick
  \/ \E f \in QuotaFiles, b \in LedgerBodies : UploadImage("t1", f, b, FALSE)
  \/ \E files \in QuotaRequests, b \in LedgerBodies :
       BulkUploadImages("t1", files, b, {})
SpecQuota == InitRace /\ [][NextQuota]_vars

\* ------------------------------------------------------------- properties
Served == {200, 302}

\* C1: without overlapping requests, a tenant's totalImages equals the number
\* of its accepted uploads (single or bulk) and its totalStorageUsed equals
\* the sum of their byte sizes.
C1_LedgerCountsAcceptedUploads ==
  \A t \in Tenants :
    /\ usage[t].totalImages = accepted[t].n
    /\ usage[t].totalStorageUsed = accepted[t].bytes

\* two uploads of different sizes were accepted for one tenant, the second
\* one in a bulk request
C1_Witness ==
  /\ resp.op = "bulk" /\ resp.status = 201 /\ resp.tenant = "t1"
  /\ Len(resp.uploaded) = 1
  /\ accepted["t1"].n = 2 /\ accepted["t1"].bytes = 3

\* C2: canUpload reports allowed exactly when its three reasons all hold, and
\* a byte size above limits.maxFileSize always gives the file-size reason
\* false and allowed false, whatever monthly and storage budget remain.
C2_AllowedIsConjunctionOfReasons ==
  resp.op = "canUpload" =>
    /\ resp.allowed = (/\ resp.reasons.monthlyLimit
                       /\ resp.reasons.storageLimit
                       /\ resp.reasons.fileSizeLimit)
    /\ resp.fileSize > limits[resp.tenant].maxFileSize =>
         (~resp.reasons.fileSizeLimit /\ ~resp.allowed)

\* a file above the per-file limit is refused although both budgets have room
C2_Witness ==
  /\ resp.op = "canUpload"
  /\ resp.fileSize > limits[resp.tenant].maxFileSize
  /\ resp.reasons.monthlyLimit /\ resp.reasons.storageLimit
  /\ resp.limits.monthlyRemaining > 0 /\ resp.limits.storageRemaining > 0
  /\ ~resp.allowed

\* C3: a read (bytes or info) of a private, non-deleted asset with neither a
\* bearer identity nor a token is answered 401, not 403.
C3_NoCredentialsIs401 ==
  (/\ resp.op \in ReadOps /\ resp.asset = "private"
   /\ resp.token = "none" /\ resp.bearer = "none")
  => resp.status = 401

\* C4: a read (bytes or info) of a private, non-deleted asset with no token
\* and the valid bearer of another tenant is answered 403.
C4_OtherTenantIs403 ==
  (/\ resp.op \in ReadOps /\ resp.asset = "private"
   /\ resp.token = "none" /\ resp.bearer = "other")
  => resp.status = 403

\* C5: a read (bytes or info) of a private, non-deleted asset with no token
\* and the valid bearer of the owning tenant is granted.
C5_OwnerBearerIsGranted ==
  (/\ resp.op \in ReadOps /\ resp.asset = "private"
   /\ resp.token = "none" /\ resp.bearer = "owner")
  => (resp.granted /\ resp.status \in Served)

\* C6: a validly signed, unexpired token whose imageId differs from the
\* requested id never grants a read of a private asset: both read endpoints
\* answer 403 and do not serve it, whatever bearer comes with the request.
C6_TokenForOtherAssetIs403 ==
  (/\ resp.op \in ReadOps /\ resp.asset = "private" /\ resp.token = "mismatch")
  => (resp.status = 403 /\ ~resp.granted)

\* the owner's bearer does not help a token minted for another asset
C6_Witness ==
  /\ resp.op = "getImage" /\ resp.asset = "private"
  /\ resp.token = "mismatch" /\ resp.bearer = "owner"
  /\ resp.status = 403

C8_PublicNeedsNoCredentials ==
  (/\ resp.op \in ReadOps /\ resp.asset = "public"
   /\ resp.token = "none" /\ resp.bearer = "none")
  => (resp.granted /\ resp.status \in Served)

\* the info of a public asset was returned to an anonymous request
C8_Witness ==
  /\ resp.op = "getImageInfo" /\ resp.asset = "public"
  /\ resp.token = "none" /\ resp.bearer = "none"
  /\ resp.granted

\* C9: for every asset state, token and bearer, getImage and getImageInfo make
\* the same access decision: both grant, or both deny with the same status.
C9_InfoDecidesAsGetImage ==
  \A id \in RequestIds, token \in Tokens, bearer \in Bearers :
    getImageOutcome(id, token, bearer) = getImageInfoOutcome(id, token, bearer)

\* C10: a soft-deleted asset is left out of its owner's listing and category
\* list, and every later fetch (bytes or info), metadata update, replace or
\* delete of it is answered 404, also for the owner's bearer and for a valid
\* token.  (The response clauses of the claim; its last clause, that no
\* operation clears the flag, is the action part of C10_SoftDeletedStaysGone.)
C10_DeletedAlways404 ==
  /\ resp.op = "list" => resp.listed \cap resp.deleted = {}
  /\ resp.op = "categories" => resp.categories = resp.live
  /\ (/\ resp.op \in ReadOps \cup {"metadata", "replace", "delete"}
      /\ resp.asset = "deleted")
     => resp.status = 404

\* C10, amended: a soft-deleted asset is left out of its owner's listing and
\* category list; every later fetch (bytes or info), metadata update or delete
\* of it, and every replace of it that carries an accepted replacement file,
\* is answered 404, also for the owner's bearer and for a valid token (a
\* replace whose file is missing or refused is answered 400 before the asset
\* is looked up); and no operation clears the isDeleted flag.
C10_SoftDeletedStaysGone ==
  /\ [](/\ resp.op = "list" => resp.listed \cap resp.deleted = {}
        /\ resp.op = "categories" => resp.categories = resp.live
        /\ (/\ resp.op \in ReadOps \cup {"metadata", "replace", "delete"}
            /\ resp.asset = "deleted"
            /\ ~(resp.op = "replace" /\ resp.status = 400))
           => resp.status = 404)
  /\ [][\A id \in ImageIds : images[id].isDeleted => images'[id].isDeleted]_vars

\* the owner presented its bearer and a valid token for its own deleted asset
C10_Witness ==
  /\ resp.op = "getImage" /\ resp.asset = "deleted"
  /\ resp.token = "match" /\ resp.bearer = "owner"
  /\ resp.status = 404

\* C11: within one upload request the calls are made in the order canUpload,
\* variant generation, catalog write, recordUpload, token issuance: canUpload
\* is the first call and is made once, a catalog write follows a variant
\* generation, recordUpload follows the successful catalog write of its asset
\* at once and only that, the token follows recordUpload; every asset record
\* was written by one successful save, and has had exactly one recordUpload
\* unless its request is about to make it (single upload and every file of a
\* bulk upload).
C11_StepsInOrder ==
  LET calls(c) == {<<s, i>> \in Slots \X (1..(1 + 4 * MaxBulk)) :
                     i <= Len(reqs[s].log) /\ reqs[s].log[i] = c}
  IN
  /\ \A s \in Slots :
       LET log == reqs[s].log
       IN \A i \in 1..Len(log) :
            /\ (log[i] = "canUpload") <=> (i = 1)
            /\ log[i] \in {"save", "saveFailed"} => log[i - 1] = "variants"
            /\ log[i] = "recordUpload" => log[i - 1] = "save"
            /\ log[i] = "token" => log[i - 1] = "recordUpload"
            /\ (log[i] = "save" /\ i < Len(log)) => log[i + 1] = "recordUpload"
  /\ Cardinality(calls("save")) = Len(images)
  /\ Cardinality(calls("recordUpload"))
       + Cardinality({s \in Slots : reqs[s].pc = "record"}) = Len(images)

\* a bulk request persisted both of its files and answered
C11_Witness ==
  /\ reqs["r1"].pc = "done"
  /\ reqs["r1"].log = <<"canUpload", "variants", "save", "recordUpload", "token",
                        "variants", "save", "recordUpload", "token">>
  /\ resp.op = "bulk" /\ Len(resp.uploaded) = 2

\* C12: whenever an upload request (single or bulk) is answered with a
\* validation error (400) or a quota error (413), no blob was written to the
\* blob store for it, no asset record was created and the tenant's ledger is
\* unchanged.
C12_RejectionLeavesNoTrace ==
  [][(/\ now' = now
      /\ resp'.op \in {"upload", "bulk"}
      /\ resp'.status \in {400, 413})
     => (blobs' = blobs /\ images' = images /\ usage' = usage)]_vars

\* C13: a single upload that fails after admission and before its catalog
\* write completes (image.save() rejects) is aborted with status 500, no asset
\* record created and no ledger counter incremented.
C13_FailedSaveAborts ==
  [][(/\ now' = now
      /\ resp'.op = "upload"
      /\ resp'.status = 500)
     => (images' = images /\ usage' = usage /\ accepted' = accepted)]_vars

\* the save failed for a tenant that already had an accepted upload
C13_Witness ==
  /\ resp.op = "upload" /\ resp.status = 500
  /\ accepted[resp.tenant].n = 1
  /\ usage[resp.tenant].totalImages = 1
  /\ Len(images) = 1

\* C14: a failure of variant generation never rejects an upload, a bulk
\* upload's file or a replacement: the request succeeds, the asset is
\* persisted with an empty variant map, and the tenant's totals count it
\* like any other accepted upload.
C14_VariantFailureNeverRejects ==
  /\ (resp.op = "upload" /\ resp.fragile /\ resp.status # 413)
       => (resp.status = 201 /\ findOwned(resp.imageId, resp.tenant)
           /\ images[resp.imageId].variants = {})
  /\ (resp.op = "replace" /\ resp.fragile /\ resp.status # 404)
       => (resp.status = 200 /\ findOwned(resp.imageId, resp.tenant)
           /\ images[resp.imageId].variants = {})
  /\ (resp.op = "bulk" /\ resp.status = 201)
       => \A j \in resp.fragile :
              /\ ~(\E k \in 1..Len(resp.errors) : resp.errors[k] = j)
              /\ \E k \in 1..Len(resp.uploaded) :
                    /\ findOwned(resp.uploaded[k].imageId, resp.tenant)
                    /\ images[resp.uploaded[k].imageId].variants = {}
  /\ \A t \in Tenants :
       /\ usage[t].totalImages = accepted[t].n
       /\ usage[t].totalStorageUsed = accepted[t].bytes

\* a replacement whose variants could not be generated succeeded on an asset
\* that a variant-less bulk upload created, and both uploads were counted
C14_Witness ==
  /\ resp.op = "replace" /\ resp.fragile /\ resp.status = 200
  /\ images[resp.imageId].variants = {}
  /\ Len(images) = 2 /\ images[1].variants = {}
  /\ usage["t1"].totalImages = 2

\* C15 as stated: the monthly counter is reset (count 0, lastResetDate =
\* now) the first time canUpload or recordUpload is invoked in a new month,
\* so the tenant document carries the current month after either call; the
\* reset never changes the totals.
C15_ResetOnEitherCall ==
  [][\A s \in Slots :
       /\ (reqs[s] = Idle /\ reqs'[s].pc = "variants")
            => LET u == usage[reqs'[s].tenant]
                   a == reqs'[s].app
               IN /\ a.lastResetDate = now
                  /\ a.currentMonthUploads =
                       (IF u.lastResetDate # now THEN 0 ELSE u.currentMonthUploads)
                  /\ a.totalImages = u.totalImages
                  /\ a.totalStorageUsed = u.totalStorageUsed
       /\ (reqs[s].pc = "record" /\ reqs'[s].pc = "token")
            => LET a == reqs[s].app
                   a2 == reqs'[s].app
               IN /\ a2.lastResetDate = now
                  /\ a2.currentMonthUploads =
                       (IF a.lastResetDate # now THEN 0 ELSE a.currentMonthUploads) + 1
     ]_vars

\* C15: the monthly counter is reset (count 0, lastResetDate = now) when
\* canUpload is invoked in a month other than lastResetDate, and the reset
\* never changes the totals; recordUpload makes no reset check, it adds one
\* to the counter it finds and leaves lastResetDate alone.
C15_ResetOnlyInCanUpload ==
  [][\A s \in Slots :
       /\ (reqs[s] = Idle /\ reqs'[s].pc = "variants")
            => LET u == usage[reqs'[s].tenant]
                   a == reqs'[s].app
               IN /\ a.lastResetDate = now
                  /\ a.currentMonthUploads =
                       (IF u.lastResetDate # now THEN 0 ELSE u.currentMonthUploads)
                  /\ a.totalImages = u.totalImages
                  /\ a.totalStorageUsed = u.totalStorageUsed
       /\ (reqs[s].pc = "record" /\ reqs'[s].pc = "token")
            => LET a == reqs[s].app
                   a2 == reqs'[s].app
               IN /\ a2.lastResetDate = a.lastResetDate
                  /\ a2.currentMonthUploads = a.currentMonthUploads + 1
                  /\ usage'[reqs[s].tenant].currentMonthUploads = a2.currentMonthUploads
     ]_vars

\* a request was admitted in a new month: its tenant document is reset while
\* the persisted one still counts last month's upload
C15_Witness ==
  \E s \in Slots :
    /\ reqs[s].pc = "variants" /\ reqs[s].log = <<"canUpload">>
    /\ reqs[s].app.currentMonthUploads = 0
    /\ reqs[s].app.lastResetDate = now
    /\ reqs[s].app.totalImages = 1
    /\ usage[reqs[s].tenant].currentMonthUploads = 1
    /\ usage[reqs[s].tenant].lastResetDate # now

\* C16: from one state to the next, also with overlapping requests of one
\* tenant, the persisted totalImages and totalStorageUsed never decrease,
\* and currentMonthUploads decreases only when the monthly reset is
\* persisted with it.
C16_CountersNeverDecrease ==
  [][\A t \in Tenants :
       /\ usage'[t].totalImages >= usage[t].totalImages
       /\ usage'[t].totalStorageUsed >= usage[t].totalStorageUsed
       /\ (usage'[t].currentMonthUploads < usage[t].currentMonthUploads
             => usage'[t].lastResetDate # usage[t].lastResetDate)
     ]_vars

\* C17: when the tenant's count of the current month has reached
\* maxImagesPerMonth, a single upload in that month whose file passes the
\* upload middleware is answered 413 with the monthly reason false, and it
\* adds no asset record and changes no usage counter.
C17_MonthlyLimitRejects ==
  [][\A t \in Tenants :
       (/\ now' = now
        /\ resp'.op = "upload" /\ resp'.tenant = t /\ resp'.status # 400
        /\ usage[t].lastResetDate = now
        /\ usage[t].currentMonthUploads >= limits[t].maxImagesPerMonth)
       => (/\ resp'.status = 413
           /\ ~resp'.reasons.monthlyLimit
           /\ images' = images
           /\ usage' = usage
           /\ accepted' = accepted)
     ]_vars

\* the tenant with limit 1 uploaded once, and the second upload of the month
\* was rejected for the monthly count alone
C17_Witness ==
  /\ resp.op = "upload" /\ resp.status = 413
  /\ ~resp.reasons.monthlyLimit
  /\ resp.reasons.storageLimit /\ resp.reasons.fileSizeLimit
  /\ limits[resp.tenant].maxImagesPerMonth = 1
  /\ usage[resp.tenant].currentMonthUploads = 1
  /\ usage[resp.tenant].lastResetDate = now
  /\ usage[resp.tenant].totalImages = 1
  /\ Len(images) = 1

\* C18: every 413 of a single or bulk upload lists one detail for each
\* reason canUpload reported false, so the list is never empty, and carries
\* the remaining budget.
C18_RejectionNamesEveryReason ==
  (resp.op \in {"upload", "bulk"} /\ resp.status = 413)
    => /\ resp.details = uploadDetails(resp.reasons)
       /\ resp.details # {}
       /\ DOMAIN resp.limits = {"monthlyRemaining", "storageRemaining", "maxFileSize"}

C20_BareUrlsIffPublic ==
  (resp.op = "upload" /\ resp.status = 201)
    => LET pub == images[resp.imageId].isPublic
           tok == resp.accessToken
       IN /\ (resp.publicUrls # {}) <=> pub
          /\ tok = Jwt("good", FALSE, resp.imageId)
          /\ pub => /\ resp.accessUrl = Url(resp.imageId, "original", NoToken)
                    /\ resp.publicUrls =
                         {Url(resp.imageId, size, NoToken) : size \in IMAGE_SIZES}
          /\ ~pub => /\ resp.accessUrl = Url(resp.imageId, "original", tok)
                     /\ resp.urls =
                          {Url(resp.imageId, size, tok) : size \in IMAGE_SIZES}

\* a private upload was answered with token URLs only
C20_Witness ==
  /\ resp.op = "upload" /\ resp.status = 201
  /\ Len(images) = 1 /\ ~images[1].isPublic
  /\ resp.publicUrls = {}
  /\ resp.accessUrl.token = Jwt("good", FALSE, 1)

\* C21: in a bulk upload every file of the batch ends in exactly one of
\* uploaded[] and errors[], whatever happened to the files before it, and
\* the summary has total = number of files = successful + failed with
\* successful = |uploaded| and failed = |errors|.
C21_EveryFileAccountedFor ==
  (resp.op = "bulk" /\ resp.status = 201)
    => LET up(j) == {k \in 1..Len(resp.uploaded) : resp.uploaded[k].file = j}
           er(j) == {k \in 1..Len(resp.errors) : resp.errors[k] = j}
       IN /\ \A j \in 1..resp.total :
               Cardinality(up(j)) + Cardinality(er(j)) = 1
          /\ resp.summary.total = resp.total
          /\ resp.summary.successful = Len(resp.uploaded)
          /\ resp.summary.failed = Len(resp.errors)
          /\ resp.summary.total = resp.summary.successful + resp.summary.failed

\* the first file of a batch of two failed and the second was uploaded
C21_Witness ==
  /\ resp.op = "bulk" /\ resp.status = 201 /\ resp.total = 2
  /\ resp.errors = <<1>>
  /\ Len(resp.uploaded) = 1 /\ resp.uploaded[1].file = 2

\* C22: a file of a bulk upload whose content does not decode as jpeg, png
\* or webp is reported in errors[] and is not among the uploaded assets (the
\* ledger counts exactly the uploaded ones).
C22_BulkRejectsUndecodableFiles ==
  (resp.op = "bulk" /\ resp.status = 201)
    => \A j \in resp.invalid :
         /\ \E k \in 1..Len(resp.errors) : resp.errors[k] = j
         /\ ~(\E k \in 1..Len(resp.uploaded) : resp.uploaded[k].file = j)

C24_OvershootShowsInLedger ==
  \A t \in Tenants :
    (\A s \in Slots : reqs[s].pc = "done")
      => /\ (accepted[t].bytes > limits[t].maxStorageSize)
              => (usage[t].totalStorageUsed > limits[t].maxStorageSize)
         /\ (now = 0 /\ accepted[t].n > limits[t].maxImagesPerMonth)
              => (usage[t].currentMonthUploads > limits[t].maxImagesPerMonth)

\* C25: the access-counter increment is atomic: whatever the interleaving
\* of the granted reads of an asset, once they have all finished its
\* accessCount equals the number of granted reads.
C25_NoAccessIncrementLost ==
  (1 \in ImageIds /\ \A s \in Slots : reqs[s].pc = "done")
    => images[1].accessCount =
         Cardinality({s \in Slots : reqs[s].log = <<"findOne", "recordAccess">>})

\* C26: without overlapping requests, a read (getImage or getImageInfo)
\* that is served adds exactly 1 to the accessCount of one asset and sets
\* its lastAccessedAt to now, changing nothing else; a read answered 401,
\* 403 or 404 changes no asset.
C26_GrantedReadCountsOnce ==
  [][(now' = now /\ resp'.op \in ReadOps)
       => /\ (resp'.status \in Served)
               => \E id \in ImageIds :
                    images' = [images EXCEPT
                                 ![id] = [@ EXCEPT !.accessCount = @ + 1,
                                                   !.lastAccessedAt = now]]
          /\ (resp'.status \in {401, 403, 404}) => images' = images
     ]_vars

\* a private asset was read with its token and the read was counted
C26_Witness ==
  /\ resp.op = "getImageInfo" /\ resp.status = 200
  /\ resp.asset = "private" /\ resp.token = "match"
  /\ \E id \in ImageIds :
       /\ ~images[id].isPublic
       /\ images[id].accessCount = 1 /\ images[id].lastAccessedAt = now

C28_DeleteIsSoftThenPurged ==
  [][/\ (/\ resp'.op = "delete"
         /\ (resp' # resp \/ images' # images)
         /\ resp'.asset \in {"public", "private"} /\ resp'.bearer = "owner")
          => /\ resp'.status = 200
             /\ blobs' = blobs
             /\ Cardinality(purges') = Cardinality(purges) + 1
             /\ \E id \in ImageIds :
                  /\ ~images[id].isDeleted
                  /\ images' = [images EXCEPT ![id] =
                                   [@ EXCEPT !.isDeleted = TRUE, !.deletedAt = now]]
     /\ (blobs' # blobs /\ blobs' \subseteq blobs)
          => /\ purges' # purges
             /\ \E id \in ImageIds : images[id].isDeleted
     /\ (purges' # purges /\ purges' \subseteq purges)
          => /\ resp' = resp /\ images' = images
             /\ Cardinality(purges') = Cardinality(purges) - 1
             /\ blobs' \subseteq blobs
    ]_vars

\* the removal of a deleted asset has run and failed: its file is still
\* stored, nothing is scheduled any more, the asset is still deleted and
\* the delete had answered success
C28_Witness ==
  /\ resp.op = "delete" /\ resp.status = 200
  /\ purges = {}
  /\ \E id \in ImageIds :
       images[id].isDeleted /\ images[id].deletedAt = now
       /\ images[id].path \in blobs

\* C29: once the removal scheduled by a delete has run on a blob store that
\* rejects nothing, none of the asset's blobs is stored any more: neither
\* an original of any version nor the variant files.
C29_PurgeRemovesEveryBlob ==
  \A id \in ImageIds :
    (images[id].isDeleted /\ \A p \in purges : p.imageId # id)
      => /\ VariantBlob(id) \notin blobs
         /\ \A v \in 1..(MaxVersions + 1) : OrigBlob(id, v) \notin blobs

\* C30: the owning tenant of an asset record never changes, and a metadata
\* update, replace or delete that authenticates as a tenant other than the
\* owner changes no asset record (fields, version history, soft-delete
\* flag) and schedules no removal.
C30_OnlyOwnerMutates ==
  [][/\ \A id \in ImageIds :
          /\ id \in 1..Len(images')
          /\ images'[id].application = images[id].application
     /\ (/\ resp'.op \in {"metadata", "replace", "delete"}
         /\ resp'.bearer = "other"
         /\ (resp' # resp \/ images' # images))
          => /\ images' = images
             /\ purges' = purges
             /\ resp'.status \in {400, 404}
    ]_vars

\* another tenant's delete of a live asset that has a version history was
\* answered not-found and the asset is still live
C30_Witness ==
  /\ resp.op = "delete" /\ resp.bearer = "other" /\ resp.status = 404
  /\ resp.asset \in {"public", "private"}
  /\ purges = {}
  /\ \E id \in ImageIds :
       /\ ~images[id].isDeleted /\ images[id].application # resp.tenant
       /\ Len(images[id].versions) > 0

\* C31: a granted byte read of a size name that is "original" or is not in
\* the asset's variant manifest is served, without an error, from the
\* original's handle with the original's MIME type; a read of a size name
\* of the manifest other than "original" is served from that variant's
\* handle as image/webp.
C31_SizeFallsBackToOriginal ==
  (resp.op = "getImage" /\ resp.granted) =>
    LET img == images[resp.imageId] IN
    IF resp.size # "original" /\ resp.size \in img.variants
    THEN /\ resp.target = VariantBlob(resp.imageId)
         /\ resp.entry = resp.size
         /\ resp.mimetype = "image/webp"
    ELSE /\ resp.status \in Served
         /\ resp.target = img.path
         /\ resp.mimetype = img.mimetype

\* C32: a read of a private asset that carries a token is decided by the
\* token alone, whatever bearer comes with it: an invalid or expired token
\* is answered 401, a valid token of another asset 403, and the asset's own
\* valid token is granted.
C32_TokenDecidesAlone ==
  (resp.op \in ReadOps /\ resp.asset = "private") =>
    /\ resp.token = "invalid" => resp.status = 401 /\ ~resp.granted
    /\ resp.token = "mismatch" => resp.status = 403 /\ ~resp.granted
    /\ resp.token = "match" => resp.granted

\* the owner's bearer came with a valid token of another asset on an info
\* read, and the read was refused
C32_Witness ==
  /\ resp.op = "getImageInfo" /\ resp.asset = "private"
  /\ resp.token = "mismatch" /\ resp.bearer = "owner"
  /\ resp.status = 403

\* C33: a delete, replace, metadata update, listing or read, and the
\* removal that follows a delete, leave every tenant's usage counters as
\* they were: only an upload request changes them.
C33_OnlyUploadsMoveTheLedger ==
  [][/\ (resp'.op \in FrameOps /\ (resp' # resp \/ images' # images))
          => usage' = usage
     /\ (blobs' # blobs /\ blobs' \subseteq blobs) => usage' = usage
    ]_vars

\* with the month's quota used up, a one-unit asset was replaced by a
\* two-unit file and the ledger still counts one unit
C33_Witness ==
  /\ resp.op = "replace" /\ resp.status = 200
  /\ \E id \in ImageIds :
       /\ images[id].size = 2 /\ Len(images[id].versions) = 1
       /\ usage[images[id].application].totalStorageUsed = 1
       /\ usage[images[id].application].currentMonthUploads
            = limits[images[id].application].maxImagesPerMonth

\* C34: without overlapping requests and with fixed limits, a tenant's
\* currentMonthUploads never exceeds its maxImagesPerMonth and its
\* totalStorageUsed never exceeds its maxStorageSize, after any sequence of
\* single and bulk uploads.
C34_LedgerWithinLimits ==
  \A t \in Tenants :
    /\ usage[t].currentMonthUploads <= limits[t].maxImagesPerMonth
    /\ usage[t].totalStorageUsed <= limits[t].maxStorageSize

C36_ProductLikeIsPublic ==
  \A id \in ImageIds :
    (\/ images[id].entityType = "product"
     \/ images[id].category \in {"product", "electronics", "clothing", "accessories"}
     \/ images[id].productId # NoValue)
      => images[id].isPublic

\* a metadata update put a private asset into the category accessories, and
\* the asset is public now
C36_Witness ==
  /\ resp.op = "metadata" /\ resp.status = 200 /\ resp.asset = "private"
  /\ \E id \in ImageIds :
       /\ images[id].category = "accessories" /\ images[id].isPublic
       /\ images[id].entityType = NoValue /\ images[id].productId = NoValue

\* C37: no storage handle of a version-history snapshot (its original and
\* the files of its variant manifest) is a handle written by a later
\* replace of the asset, i.e. a handle of a later snapshot or of the
\* current file.
C37_SnapshotHandlesAreFresh ==
  \A id \in ImageIds :
    \A k \in 1..Len(images[id].versions) :
      /\ recordHandles(id, images[id].versions[k])
            \cap recordHandles(id, images[id]) = {}
      /\ \A j \in (k + 1)..Len(images[id].versions) :
            recordHandles(id, images[id].versions[k])
              \cap recordHandles(id, images[id].versions[j]) = {}

C39_DecisionIgnoresTenantFlags ==
  (resp.op \in ReadOps /\ "outcomes" \in DOMAIN resp) =>
    /\ \A a1, a2 \in AppStates :
         authAs(a1, resp.bearerToken) = authAs(a2, resp.bearerToken)
           => resp.outcomes[a1] = resp.outcomes[a2]
    /\ (resp.asset = "public" /\ resp.token = "none" /\ resp.bearer = "none")
         => \A apps \in AppStates : resp.outcomes[apps] = 0

\* a public asset was read without token and bearer, and the read goes on
\* when its owner t1 is deactivated and has public access switched off
C39_Witness ==
  /\ resp.op = "getImage" /\ "outcomes" \in DOMAIN resp
  /\ resp.asset = "public" /\ resp.token = "none" /\ resp.bearer = "none"
  /\ \E apps \in AppStates :
       /\ ~apps["t1"].isActive /\ ~apps["t1"].enablePublicAccess
       /\ resp.outcomes[apps] = 0
====
